---------------------------- MODULE Spec2Model ----------------------------
(***************************************************************************)
(* Model of mod_totp_authenticator (authn_totp_module): the per-user TOTP  *)
(* record loader, the code generator, the window / scratch-code search,    *)
(* the per-(user, code) state file that marks a code as used, and the two  *)
(* provider entry points authn_totp_check_password and                     *)
(* authn_totp_get_realm_hash.                                              *)
(*                                                                         *)
(* C strings are sequences of character codes (ASCII), so that character   *)
(* classification, atoi, printf formatting and path building are modelled  *)
(* by what they compute.                                                   *)
(***************************************************************************)
EXTENDS Integers, Sequences, FiniteSets, TLC

(***************************************************************************)
(* Bounds of the model.                                                    *)
(***************************************************************************)
\* the clock starts at StartTime seconds and is advanced up to MaxTime ticks
MaxTime == 1
\* the state directory is followed up to MaxFiles files
MaxFiles == 2

(***************************************************************************)
(* Character classification and string helpers (apr_lib.h, libc).          *)
(***************************************************************************)
apr_isdigit(c) == c \in 48..57

apr_isalnum(c) == apr_isdigit(c) \/ c \in 65..90 \/ c \in 97..122

\* the loops "for (tmp = s; *tmp; ++tmp) if (!apr_isdigit(*tmp)) ..."
AllDigits(s) == \A k \in 1..Len(s) : apr_isdigit(s[k])

AllAlnum(s) == \A k \in 1..Len(s) : apr_isalnum(s[k])

Min(a, b) == IF a < b THEN a ELSE b

Max(a, b) == IF a > b THEN a ELSE b

\* apr_atoi64 on an all-digit string: base 10.  The digit strings of this
\* model have at most 9 characters, so the value stays below 2^31 and neither
\* the 64-bit saturation of strtoll nor the truncation of the later cast to
\* unsigned int is reached.
RECURSIVE Atoi64Acc(_, _, _)
Atoi64Acc(s, k, acc) ==
    IF k > Len(s) THEN acc
    ELSE Atoi64Acc(s, k + 1, acc * 10 + (s[k] - 48))

apr_atoi64(s) == Atoi64Acc(s, 1, 0)

\* printf "%<w>.<w>u": decimal digits, zero padded to at least w characters
RECURSIVE Digits(_)
Digits(n) == IF n < 10 THEN <<48 + n>> ELSE Digits(n \div 10) \o <<48 + (n % 10)>>

RECURSIVE ZeroPad(_, _)
ZeroPad(s, w) == IF Len(s) >= w THEN s ELSE ZeroPad(<<48>> \o s, w)

FormatU(n, w) == ZeroPad(Digits(n), w)

\* apr_strtok(s, " ", &last) called until it returns NULL: the maximal runs of
\* non-space characters of s, in order
RECURSIVE TokensAcc(_, _, _, _)
TokensAcc(s, k, cur, acc) ==
    IF k > Len(s) THEN (IF cur = <<>> THEN acc ELSE Append(acc, cur))
    ELSE IF s[k] = 32
         THEN TokensAcc(s, k + 1, <<>>, IF cur = <<>> THEN acc ELSE Append(acc, cur))
         ELSE TokensAcc(s, k + 1, Append(cur, s[k]), acc)

Tokens(s) == TokensAcc(s, 1, <<>>, <<>>)


(***************************************************************************)
(* Library primitives that the module calls (base32.h, hmac.h).            *)
(***************************************************************************)
\* base32_decode(encoded, result, bufSize): RFC 4648 alphabet, blanks and '-'
\* skipped, '0' '1' '8' read as 'O' 'L' 'B', any other character fails (-1);
\* every 8 collected bits give one byte, left-over bits are dropped.
RECURSIVE Base32Acc(_, _, _, _, _, _)
Base32Acc(s, k, bufSize, buffer, bitsLeft, out) ==
    IF k > Len(s) \/ Len(out) >= bufSize THEN [ok |-> TRUE, bytes |-> out]
    ELSE LET c0 == s[k] IN
         IF c0 \in {32, 9, 13, 10, 45}
         THEN Base32Acc(s, k + 1, bufSize, buffer, bitsLeft, out)
         ELSE LET ch == CASE c0 = 48 -> 79
                          [] c0 = 49 -> 76
                          [] c0 = 56 -> 66
                          [] OTHER   -> c0
                  isLetter == ch \in 65..90 \/ ch \in 97..122
                  isDigit  == ch \in 50..55
                  v    == IF isLetter THEN (ch % 32) - 1 ELSE ch - 50 + 26
                  buf  == buffer * 32 + v
                  bits == bitsLeft + 5
              IN IF ~(isLetter \/ isDigit)
                 THEN [ok |-> FALSE, bytes |-> <<>>]
                 ELSE IF bits >= 8
                      THEN Base32Acc(s, k + 1, bufSize, buf % (2^(bits - 8)), bits - 8,
                                     Append(out, (buf \div (2^(bits - 8))) % 256))
                      ELSE Base32Acc(s, k + 1, bufSize, buf, bits, out)

base32_decode(encoded, bufSize) == Base32Acc(encoded, 1, bufSize, 0, 0, <<>>)

\* hmac_sha1(key, data): a 20-byte MAC that is a fixed function of key and
\* data.  SHA-1 itself is not computed; the stand-in mixes every byte of both
\* arguments into every byte of the result.
RECURSIVE MixAcc(_, _, _)
MixAcc(s, k, h) ==
    IF k > Len(s) THEN h ELSE MixAcc(s, k + 1, (h * 33 + s[k] + 1) % 65521)

SHA1_DIGEST_LENGTH == 20

hmac_sha1(key, data) ==
    LET seed == MixAcc(data, 1, MixAcc(key, 1, 5381) * 2 % 65521)
    IN [j \in 1..SHA1_DIGEST_LENGTH |-> ((seed + 1) * (2 * j + 1) + 7 * j * j + seed \div 256) % 256]

(***************************************************************************)
(* generate_totp_code                                                      *)
(***************************************************************************)
\* for (j = 8; j--; challenge >>= 8) challenge_data[j] = challenge;
RECURSIVE ChallengeBytes(_, _)
ChallengeBytes(challenge, n) ==
    IF n = 0 THEN <<>>
    ELSE Append(ChallengeBytes(challenge \div 256, n - 1), challenge % 256)

\* The four bytes at hash[offset .. offset+3] are shifted into a 32-bit
\* unsigned value which is then masked with 0x7FFFFFFF: the mask clears the
\* top bit of the first byte, which is applied here before the bytes are
\* combined so that every intermediate value is below 2^31.
\* offset = hash[SHA1_DIGEST_LENGTH - 1] & 0xF  (hash is indexed from 1 here)
TruncationOffset(hash) == hash[SHA1_DIGEST_LENGTH] % 16

\* the indices hash[offset + j], j = 0..3, that the loop reads (from 0, as in C)
TruncationReads(hash) == { TruncationOffset(hash) + j : j \in 0..3 }

\* Mutant of DynamicTruncate: the code is reduced modulo 10,000,000.
DynamicTruncate_seven_digits(hash) ==
    LET offset == TruncationOffset(hash)
        b(j)   == hash[offset + j + 1]
        masked == (b(0) % 128) * 16777216 + b(1) * 65536 + b(2) * 256 + b(3)
    IN masked % 10000000

\* the loop over hash[offset + j], the mask and the modulus
DynamicTruncate(hash) ==
    LET offset == TruncationOffset(hash)
        b(j)   == hash[offset + j + 1]
        masked == (b(0) % 128) * 16777216 + b(1) * 65536 + b(2) * 256 + b(3)
    IN masked % 1000000

generate_totp_code(challenge, secret) ==
    DynamicTruncate(hmac_sha1(secret, ChallengeBytes(challenge, 8)))

(***************************************************************************)
(* The token directory: one text file per user, given as the lines that    *)
(* ap_cfg_getline returns (leading and trailing blanks stripped).          *)
(***************************************************************************)
\* a char* that is NULL; directory paths set by ap_set_file_slot are never
\* the empty string
NULL == <<>>

TokenDirPath == <<116>>                               \* "t"
StateDirPath == <<115>>                               \* "s"

UserA == <<97>>                                       \* "a"
UserB == <<98>>                                       \* "b"
UserD == <<100>>                                      \* "d"
UserE == <<101>>                                      \* "e"
UserF == <<102>>                                      \* "f"
UserG == <<103>>                                      \* "g"
UserZ == <<122>>                                      \* "z": has no file
UserDot == <<97, 46>>                                 \* "a.": not alphanumeric

LineDisallowReuse == <<34, 32, 68, 73, 83, 65, 76, 76, 79, 87, 95, 82, 69, 85, 83, 69>>
LineWindowSize1   == <<34, 32, 87, 73, 78, 68, 79, 87, 95, 83, 73, 90, 69, 32, 49>>
LineRateLimit     == <<34, 32, 82, 65, 84, 69, 95, 76, 73, 77, 73, 84, 32, 49, 32, 51, 48>>
LineRateLimitNoSeconds == <<34, 32, 82, 65, 84, 69, 95, 76, 73, 77, 73, 84, 32, 51>>
LineSecretA       == <<77, 70, 82, 71, 71, 90, 68, 70>>      \* "MFRGGZDF"
LineSecretB       == <<71, 69, 90, 68, 71, 78, 66, 86>>      \* "GEZDGNBV"
LineBadSecret     == <<77, 36>>                              \* "M$"
LineScratch1      == <<49, 50, 51, 52, 53, 54, 55, 56>>      \* "12345678"
LineScratch2      == <<56, 55, 54, 53, 52, 51, 50, 49>>      \* "87654321"
LineScratchLow    == <<48, 48, 54, 53, 52, 51, 50, 49>>      \* "00654321"

Path(dir, name) == dir \o <<47>> \o name              \* "%s/%s"

\* "a":  DISALLOW_REUSE, WINDOW_SIZE 1, RATE_LIMIT 1 30, a secret, two
\*       scratch codes
\* "b":  a secret and one scratch code, no directive
\* "d":  a directive and no secret line at all
\* "e":  a secret line that is not Base32
\* "f":  RATE_LIMIT 3 without a seconds value, then b's secret
\* "g":  a's secret and a scratch code whose value has six digits
\* "a.": a copy of b's record under a name that is not alphanumeric
TokenFiles ==
    (Path(TokenDirPath, UserA) :>
        << LineDisallowReuse, LineWindowSize1, LineRateLimit, <<>>,
           LineSecretA, LineScratch1, LineScratch2 >>)
 @@ (Path(TokenDirPath, UserB) :> << LineSecretB, LineScratch1 >>)
 @@ (Path(TokenDirPath, UserD) :> << LineDisallowReuse >>)
 @@ (Path(TokenDirPath, UserE) :> << LineWindowSize1, LineBadSecret, LineScratch1 >>)
 @@ (Path(TokenDirPath, UserF) :> << LineRateLimitNoSeconds, LineSecretB >>)
 @@ (Path(TokenDirPath, UserG) :> << LineSecretA, LineScratchLow >>)
 @@ (Path(TokenDirPath, UserDot) :> << LineSecretB, LineScratch1 >>)

(***************************************************************************)
(* get_user_totp_config                                                    *)
(***************************************************************************)
\* memset(user_config, 0, sizeof(*user_config))
ZeroConfig ==
    [ has_key |-> FALSE, shared_key |-> <<>>, shared_key_len |-> 0,
      disallow_reuse |-> FALSE, window_size |-> 0,
      rate_limit_count |-> 0, rate_limit_seconds |-> 0,
      scratch_codes |-> <<>> ]

DirDisallowReuse == <<68, 73, 83, 65, 76, 76, 79, 87, 95, 82, 69, 85, 83, 69>>
DirWindowSize    == <<87, 73, 78, 68, 79, 87, 95, 83, 73, 90, 69>>
DirRateLimit     == <<82, 65, 84, 69, 95, 76, 73, 77, 73, 84>>

\* One line of the record.  st = "ok": go on with cfg; "null": the load
\* returns NULL; "fault": the digit loop dereferences the NULL that apr_strtok
\* returned for a missing value.
ParseDirective(cfg, line) ==
    LET toks == Tokens(SubSeq(line, 3, Len(line)))
        ok(c) == [st |-> "ok", cfg |-> c]
        fault == [st |-> "fault", cfg |-> cfg]
    IN IF toks = <<>> THEN ok(cfg)
       ELSE IF toks[1] = DirDisallowReuse
            THEN ok([cfg EXCEPT !.disallow_reuse = TRUE])
       ELSE IF toks[1] = DirWindowSize
            THEN IF Len(toks) < 2 THEN fault
                 ELSE IF AllDigits(toks[2])
                      THEN ok([cfg EXCEPT !.window_size =
                                   Max(0, Min(apr_atoi64(toks[2]), 32))])
                      ELSE ok(cfg)
       ELSE IF toks[1] = DirRateLimit
            THEN IF Len(toks) < 3 THEN fault
                 ELSE LET c1 == IF AllDigits(toks[2])
                                THEN [cfg EXCEPT !.rate_limit_count =
                                          Max(0, Min(apr_atoi64(toks[2]), 5))]
                                ELSE cfg
                      IN IF AllDigits(toks[3])
                         THEN ok([c1 EXCEPT !.rate_limit_seconds =
                                      Max(30, Min(apr_atoi64(toks[3]), 300))])
                         ELSE ok([c1 EXCEPT !.rate_limit_count = 0])
       ELSE ok(cfg)

ParseSecret(cfg, line) ==
    LET dec == base32_decode(line, Len(line))
    IN IF ~dec.ok THEN [st |-> "null", cfg |-> cfg]
       ELSE [st |-> "ok",
             cfg |-> [cfg EXCEPT !.has_key = TRUE, !.shared_key = dec.bytes,
                                 !.shared_key_len = Len(dec.bytes)]]

\* Mutant of ParseScratch: the test scratch_codes_count < 10 is missing.
ParseScratch_no_limit(cfg, line) ==
    IF AllDigits(line)
    THEN [st |-> "ok",
          cfg |-> [cfg EXCEPT !.scratch_codes = Append(@, apr_atoi64(line))]]
    ELSE [st |-> "ok", cfg |-> cfg]

\* a line with a character that is not a digit sets token = NULL and is
\* logged; an all-digit line is stored while scratch_codes_count < 10
ParseScratch(cfg, line) ==
    IF AllDigits(line) /\ Len(cfg.scratch_codes) < 10
    THEN [st |-> "ok",
          cfg |-> [cfg EXCEPT !.scratch_codes = Append(@, apr_atoi64(line))]]
    ELSE [st |-> "ok", cfg |-> cfg]

ParseLine(cfg, line) ==
    IF line = <<>> THEN [st |-> "ok", cfg |-> cfg]
    ELSE IF line[1] = 34 THEN ParseDirective(cfg, line)
    ELSE IF ~cfg.has_key THEN ParseSecret(cfg, line)
    ELSE ParseScratch(cfg, line)

RECURSIVE ParseLines(_, _, _)
ParseLines(lines, k, cfg) ==
    IF k > Len(lines) THEN [st |-> "ok", cfg |-> cfg]
    ELSE LET r == ParseLine(cfg, lines[k])
         IN IF r.st = "ok" THEN ParseLines(lines, k + 1, r.cfg) ELSE r

\* the while loop over the lines of each file of the token directory (the
\* files do not change, so the loop's result per file is computed once)
ParsedFiles == [p \in DOMAIN TokenFiles |-> ParseLines(TokenFiles[p], 1, ZeroConfig)]

\* err is the reason the function logs before it returns NULL
get_user_totp_config(conf, username) ==
    IF conf.tokenDir = NULL
    THEN [st |-> "null", err |-> "ConfigError", cfg |-> ZeroConfig]
    ELSE LET config_filename == Path(conf.tokenDir, username)
         IN IF config_filename \notin DOMAIN TokenFiles
            THEN [st |-> "null", err |-> "NotFound", cfg |-> ZeroConfig]
            ELSE LET r == ParsedFiles[config_filename]
                 IN [st |-> r.st,
                     err |-> IF r.st = "null" THEN "InvalidFormat" ELSE "none",
                     cfg |-> r.cfg]

(***************************************************************************)
(* State.                                                                  *)
(***************************************************************************)
VARIABLES
    now,         \* apr_time_now(), in seconds
    conf,        \* totp_auth_config_rec: tokenDir and stateDir (NULL or a path)
    stateFiles,  \* the paths of the files that exist in the state directory
    result,      \* the last provider call: its arguments, what it did, its verdict
    grantLog,    \* the "access granted" log lines so far: <<user, password>>
    lastGrant,   \* user and time of the most recent "access granted" log line
    ledgerFs,    \* the ledger file and the temporary files: path -> records
    txn,         \* per caller, its call of totp_check_n_update_file_helper
    faults,      \* the number of file operations that failed so far
    probe,       \* the last application of the code generator or of the
                 \* record loader on its own, and its result
    inflight     \* per request thread, its authn_totp_check_password call

authVars == <<now, conf, stateFiles, result, grantLog, lastGrant>>
ledgerVars == <<ledgerFs, txn, faults>>
vars == <<now, conf, stateFiles, result, grantLog, lastGrant, ledgerFs, txn, faults, probe,
          inflight>>

\* the clock of the model: it starts at StartTime and advances by TickSeconds
StartTime == 30
TickSeconds == 30

\* get_timestamp(): the number of 30-second intervals since the epoch
get_timestamp(t) == t \div 30

\* the time steps the clock of the model reaches
FirstStep == get_timestamp(StartTime)
LastStep == get_timestamp(StartTime + MaxTime * TickSeconds)

\* the shared keys of the records "a" and "b"
KeyA == ParsedFiles[Path(TokenDirPath, UserA)].cfg.shared_key
KeyB == ParsedFiles[Path(TokenDirPath, UserB)].cfg.shared_key

\* generate_totp_code is a pure function: its values for the keys of the
\* token directory and the steps around the reachable ones are computed once
TabulatedSteps == (FirstStep - 3)..(LastStep + 3)
TabulatedKeys == {KeyA, KeyB, <<>>}
CodeTable ==
    [s \in TabulatedSteps, key \in TabulatedKeys |-> generate_totp_code(s, key)]

TotpCode(challenge, secret) ==
    IF challenge \in TabulatedSteps /\ secret \in TabulatedKeys
    THEN CodeTable[challenge, secret]
    ELSE generate_totp_code(challenge, secret)

(***************************************************************************)
(* mark_code_invalid                                                       *)
(***************************************************************************)
\* Mutant of CodeFilePath: the file name is built from the password alone.
CodeFilePath_without_user(stateDir, user, password) ==
    stateDir \o <<47>> \o <<45, 99>> \o password

\* "%s/%s-c%s"
CodeFilePath(stateDir, user, password) ==
    stateDir \o <<47>> \o user \o <<45, 99>> \o password

\* Mutant of mark_code_invalid: the file is opened without APR_FOPEN_EXCL, so
\* an existing file is opened again and the call succeeds.
mark_code_invalid_no_excl(cf, files, user, password) ==
    IF cf.stateDir = NULL
    THEN {[ok |-> FALSE, err |-> "unset", files |-> files]}
    ELSE {[ok |-> TRUE, err |-> "none",
           files |-> files \cup {CodeFilePath(cf.stateDir, user, password)}],
          [ok |-> FALSE, err |-> "io", files |-> files]}

\* apr_file_open with APR_FOPEN_CREATE | APR_FOPEN_EXCL fails when the file
\* exists, and may fail for any other reason the file system has.  The set of
\* possible outcomes: whether the code was marked (the return value), the
\* error that is logged, and the files that exist afterwards.
mark_code_invalid(cf, files, user, password) ==
    IF cf.stateDir = NULL
    THEN {[ok |-> FALSE, err |-> "unset", files |-> files]}
    ELSE LET code_filepath == CodeFilePath(cf.stateDir, user, password)
         IN IF code_filepath \in files
            THEN {[ok |-> FALSE, err |-> "exists", files |-> files]}
            ELSE {[ok |-> TRUE, err |-> "none", files |-> files \cup {code_filepath}],
                  [ok |-> FALSE, err |-> "io", files |-> files]}

(***************************************************************************)
(* authn_totp_check_password                                               *)
(***************************************************************************)
AUTH_GRANTED == "AUTH_GRANTED"
AUTH_DENIED == "AUTH_DENIED"
AUTH_USER_FOUND == "AUTH_USER_FOUND"
AUTH_USER_NOT_FOUND == "AUTH_USER_NOT_FOUND"
\* the request ends in a fault of the process (no verdict is returned)
FAULT == "FAULT"

\* Mutant of WindowSearch: the loop runs one step too far
\* (i <= window_size + 1).
RECURSIVE WindowSearch_one_more(_, _, _, _)
WindowSearch_one_more(cfg, timestamp, user_code, i) ==
    IF i > cfg.window_size + 1 THEN [found |-> FALSE, at |-> 0]
    ELSE IF TotpCode(timestamp + i, cfg.shared_key) = user_code
         THEN [found |-> TRUE, at |-> i]
         ELSE WindowSearch_one_more(cfg, timestamp, user_code, i + 1)

\* for (i = -window_size; i <= window_size; ++i)
\*     if (generate_totp_code(timestamp + i, ...) == user_code) -> first match
RECURSIVE WindowSearch(_, _, _, _)
WindowSearch(cfg, timestamp, user_code, i) ==
    IF i > cfg.window_size THEN [found |-> FALSE, at |-> 0]
    ELSE IF TotpCode(timestamp + i, cfg.shared_key) = user_code
         THEN [found |-> TRUE, at |-> i]
         ELSE WindowSearch(cfg, timestamp, user_code, i + 1)

\* Mutant of ScratchSearch: the loop stops one entry early
\* (i < scratch_codes_count - 1).
ScratchSearch_skip_last(cfg, user_code) ==
    \E k \in 1..(Len(cfg.scratch_codes) - 1) : cfg.scratch_codes[k] = user_code

\* for (i = 0; i < scratch_codes_count; ++i)
\*     if (scratch_codes[i] == user_code) -> first match
ScratchSearch(cfg, user_code) ==
    \E k \in 1..Len(cfg.scratch_codes) : cfg.scratch_codes[k] = user_code

\* Mutant of PasswordFormatOk: only the length is checked.
PasswordFormatOk_length_only(password) == Len(password) \in {6, 8}

\* if ((password_len == 6) || (password_len == 8)) and every character a digit
PasswordFormatOk(password) ==
    Len(password) \in {6, 8} /\ AllDigits(password)

\* Mutant of CodeMatches: the password is compared with the candidates of
\* both loops whatever its length.
CodeMatches_either_path(cfg, timestamp, password) ==
    \/ WindowSearch(cfg, timestamp, apr_atoi64(password), -cfg.window_size).found
    \/ ScratchSearch(cfg, apr_atoi64(password))

\* the candidate comparison selected by the length of the password
CodeMatches(cfg, timestamp, password) ==
    IF Len(password) = 6
    THEN WindowSearch(cfg, timestamp, apr_atoi64(password), -cfg.window_size).found
    ELSE ScratchSearch(cfg, apr_atoi64(password))

\* Mutant of VerdictOnMatch: the return value of mark_code_invalid is ignored.
VerdictOnMatch_ignore_mark(marked) == AUTH_GRANTED

\* what the call returns once a candidate matched and mark_code_invalid ran
VerdictOnMatch(marked) == IF marked THEN AUTH_GRANTED ELSE AUTH_DENIED

\* if (!totp_config) return AUTH_DENIED;
VerdictOnLoadFailure == AUTH_DENIED

\* The record of one provider call: its arguments (password holds the realm
\* of a get_realm_hash call), the time it ran at, the usernames
\* get_user_totp_config was called with (loaded), whether a candidate matched,
\* whether mark_code_invalid returned true (marked) and what it logged
\* (markErr: "not_called", "none", or the reason it failed), the status
\* returned and the hash returned.  seq alternates between 0 and 1 from one
\* call to the next.
NoCall(op) ==
    [ op |-> op, user |-> <<>>, password |-> <<>>, time |-> 0, seq |-> 0,
      verdict |-> AUTH_DENIED, loaded |-> <<>>, matched |-> FALSE,
      marked |-> FALSE, markErr |-> "not_called", hash |-> <<>> ]

\* Mutant of authn_totp_check_password: mark_code_invalid is called for the
\* presented password before the candidates are compared.
authn_totp_check_password_mark_first(cf, files, t, user, password) ==
    LET timestamp == get_timestamp(t)
        base == [NoCall("check_password") EXCEPT
                    !.user = user, !.password = password, !.time = t]
        ret(r, v) == {[out |-> [r EXCEPT !.verdict = v], files |-> files]}
        deny(r) == ret(r, AUTH_DENIED)
    IN IF ~AllAlnum(user) THEN deny(base)
       ELSE IF ~PasswordFormatOk(password) THEN deny(base)
       ELSE LET load == get_user_totp_config(cf, user)
                r1   == [base EXCEPT !.loaded = <<user>>]
            IN IF load.st = "null" THEN ret(r1, VerdictOnLoadFailure)
               ELSE IF load.st = "fault" THEN ret(r1, FAULT)
               ELSE LET hit == CodeMatches(load.cfg, timestamp, password)
                    IN { [out |-> [r1 EXCEPT !.matched = hit,
                                             !.marked = m.ok,
                                             !.markErr = m.err,
                                             !.verdict = VerdictOnMatch(hit /\ m.ok)],
                          files |-> m.files] :
                         m \in mark_code_invalid(cf, files, user, password) }

\* The whole handler: the set of its possible outcomes (more than one only
\* where the file system decides), each the record of the call and the files
\* of the state directory afterwards.
authn_totp_check_password(cf, files, t, user, password) ==
    LET timestamp == get_timestamp(t)
        base == [NoCall("check_password") EXCEPT
                    !.user = user, !.password = password, !.time = t]
        ret(r, v) == {[out |-> [r EXCEPT !.verdict = v], files |-> files]}
        deny(r) == ret(r, AUTH_DENIED)
    IN IF ~AllAlnum(user) THEN deny(base)
       ELSE IF ~PasswordFormatOk(password) THEN deny(base)
       ELSE LET load == get_user_totp_config(cf, user)
                r1   == [base EXCEPT !.loaded = <<user>>]
            IN IF load.st = "null" THEN ret(r1, VerdictOnLoadFailure)
               ELSE IF load.st = "fault" THEN ret(r1, FAULT)
               ELSE IF ~CodeMatches(load.cfg, timestamp, password) THEN deny(r1)
               ELSE { [out |-> [r1 EXCEPT !.matched = TRUE,
                                          !.marked = m.ok,
                                          !.markErr = m.err,
                                          !.verdict = VerdictOnMatch(m.ok)],
                       files |-> m.files] :
                      m \in mark_code_invalid(cf, files, user, password) }

(***************************************************************************)
(* authn_totp_get_realm_hash                                               *)
(***************************************************************************)
\* "%s:%s:%s" of user, realm and the "%6.6u" code.  apr_md5 and hex_encode
\* are a fixed injective-in-practice function of this string; the string
\* stands for its digest.
RealmHashString(user, realm, totp_code) ==
    user \o <<58>> \o realm \o <<58>> \o FormatU(totp_code, 6)

\* Mutant of authn_totp_get_realm_hash: the code of the next step is hashed
\* (a window offset of one).
authn_totp_get_realm_hash_next_step(cf, t, user, realm) ==
    LET base == [NoCall("get_realm_hash") EXCEPT
                    !.user = user, !.password = realm, !.time = t,
                    !.loaded = <<user>>]
        load == get_user_totp_config(cf, user)
    IN IF load.st = "null" THEN [base EXCEPT !.verdict = AUTH_USER_NOT_FOUND]
       ELSE IF load.st = "fault" THEN [base EXCEPT !.verdict = FAULT]
       ELSE [base EXCEPT
               !.verdict = AUTH_USER_FOUND,
               !.hash = RealmHashString(user, realm,
                            TotpCode(get_timestamp(t) + 1, load.cfg.shared_key))]

authn_totp_get_realm_hash(cf, t, user, realm) ==
    LET timestamp == get_timestamp(t)
        base == [NoCall("get_realm_hash") EXCEPT
                    !.user = user, !.password = realm, !.time = t,
                    !.loaded = <<user>>]
        load == get_user_totp_config(cf, user)
    IN IF load.st = "null" THEN [base EXCEPT !.verdict = AUTH_USER_NOT_FOUND]
       ELSE IF load.st = "fault" THEN [base EXCEPT !.verdict = FAULT]
       ELSE [base EXCEPT
               !.verdict = AUTH_USER_FOUND,
               !.hash = RealmHashString(user, realm,
                            TotpCode(timestamp, load.cfg.shared_key))]

(***************************************************************************)
(* Inputs of the provider calls.                                           *)
(***************************************************************************)
Users == {UserA, UserB, UserD, UserE, UserF, UserG, UserZ, UserDot}

Realms == {<<114>>}                                   \* "r"

\* the six-digit codes of a key for a range of steps, as a user types them
CodesOf(key, steps) == { FormatU(TotpCode(s, key), 6) : s \in steps }

\* "12345", "12a456", "1234567a"
BadPasswords ==
    { <<49, 50, 51, 52, 53>>, <<49, 50, 97, 52, 53, 54>>,
      <<49, 50, 51, 52, 53, 54, 55, 97>> }

\* The <<user, password>> pairs presented to authn_totp_check_password:
\*   "a":  its codes for every reachable step and one step around (inside
\*         and outside its window of 1), its scratch codes, malformed input
\*   "b":  its codes for every reachable step (window 0), its scratch code,
\*         and its codes with "00" in front, as 8-digit passwords
\*   "d":  the codes of the empty key
\*   "g":  the six digits of its scratch code, as a 6-digit password
\*   "e", "f", "z", "a.": a well-formed scratch code
Attempts ==
    ({UserA} \X (CodesOf(KeyA, (FirstStep - 1)..(LastStep + 1))
                   \cup {LineScratch1, LineScratch2} \cup BadPasswords))
  \cup ({UserB} \X (CodesOf(KeyB, FirstStep..LastStep) \cup {LineScratch1}
                   \cup { <<48, 48>> \o c : c \in CodesOf(KeyB, FirstStep..LastStep) }))
  \cup ({UserG} \X {SubSeq(LineScratchLow, 3, 8)})
  \cup ({UserD} \X CodesOf(<<>>, FirstStep..LastStep))
  \cup ({UserE, UserF, UserZ, UserDot} \X {LineScratch1})

(***************************************************************************)
(* totp_check_n_update_file_helper (utils.c): the compact-and-append        *)
(* transaction on one ledger file.  A record is [ts, payload]: the leading  *)
(* apr_time_t and the rest of the entry_size bytes.  A file is the sequence *)
(* of its records.                                                          *)
(***************************************************************************)
\* the callers that may run the helper at the same time
Procs == {1, 2}

\* the clock of the ledger runs from 0 to MaxLedgerTime
MaxLedgerTime == 2

\* the timestamps of the entries of calls that run one after the other
EntryTimes == {0, 1, 2}

\* at most MaxFaults file operations fail for a reason of the file system
MaxFaults == 1

\* The retention predicate of the call site and its cb_data.  An existing
\* record is kept iff it is younger than RetentionSeconds; cb_data counts the
\* kept records (res) and notes a kept record with the payload of the new
\* entry (seen).  The new entry is admitted iff res < AdmitCap and its payload
\* was not seen.
RetentionSeconds == 2
AdmitCap == 2

\* the payloads of the entries (the codes presented)
Payloads == {1, 2, 3}

NewCbData == [res |-> 0, seen |-> FALSE]

APR_SUCCESS == "APR_SUCCESS"
APR_ENOENT == "APR_ENOENT"
APR_EEXIST == "APR_EEXIST"
APR_EGENERAL == "APR_EGENERAL"

\* existing = NULL is the final call, for the new entry itself
cb_check(entry, existing, cb_data) ==
    IF existing = NULL
    THEN [keep |-> cb_data.res < AdmitCap /\ ~cb_data.seen, cb_data |-> cb_data]
    ELSE IF entry.ts - existing.ts < RetentionSeconds
         THEN [keep |-> TRUE,
               cb_data |-> [res |-> cb_data.res + 1,
                            seen |-> cb_data.seen \/ existing.payload = entry.payload]]
         ELSE [keep |-> FALSE, cb_data |-> cb_data]

LedgerPath == <<108>>                                 \* "l"

\* apr_psprintf(pool, "%s.%" APR_TIME_T_FMT, filepath, timestamp)
TmpFilePath(filepath, timestamp) == filepath \o <<46>> \o Digits(timestamp)

EmptyFs == [n \in {} |-> <<>>]
FsPut(fs, name, data) ==
    [n \in DOMAIN fs \cup {name} |-> IF n = name THEN data ELSE fs[n]]
FsRemove(fs, name) == [n \in DOMAIN fs \ {name} |-> fs[n]]

\* Mutant of OpenTmpFile: APR_FOPEN_EXCL is missing, an existing file is
\* truncated and used.
OpenTmpFile_no_excl(fs, name) ==
    {[status |-> APR_SUCCESS, fs |-> FsPut(fs, name, <<>>)],
     [status |-> APR_EGENERAL, fs |-> fs]}

\* apr_file_open(tmp_filepath, EXCL | WRITE | CREATE | BUFFERED | TRUNCATE):
\* the outcomes the file system can give
OpenTmpFile(fs, name) ==
    IF name \in DOMAIN fs
    THEN {[status |-> APR_EEXIST, fs |-> fs]}
    ELSE {[status |-> APR_SUCCESS, fs |-> FsPut(fs, name, <<>>)],
          [status |-> APR_EGENERAL, fs |-> fs]}

\* apr_file_open(filepath, READ), apr_file_info_get, apr_mmap_create: the
\* mapped records, or APR_ENOENT (nothing to scan), or a failure
OpenTargetFile(fs, filepath) ==
    (IF filepath \in DOMAIN fs
     THEN {[status |-> APR_SUCCESS, data |-> fs[filepath]]}
     ELSE {[status |-> APR_ENOENT, data |-> <<>>]})
    \cup {[status |-> APR_EGENERAL, data |-> <<>>]}

\* Mutant of ScanRecords: the test timestamp >= entry_time is missing, so a
\* record dated after the new entry goes to the predicate like any other.
RECURSIVE ScanRecords_keep_future(_, _, _, _, _)
ScanRecords_keep_future(entry, data, k, cb_data, out) ==
    IF k > Len(data) THEN [out |-> out, cb_data |-> cb_data]
    ELSE LET c == cb_check(entry, data[k], cb_data)
         IN IF c.keep
            THEN ScanRecords_keep_future(entry, data, k + 1, c.cb_data,
                                         Append(out, data[k]))
            ELSE ScanRecords_keep_future(entry, data, k + 1, c.cb_data, out)

\* the for loop over the mapped records, from record k on: the records
\* written to the temporary file so far (out) and cb_data
RECURSIVE ScanRecords(_, _, _, _, _)
ScanRecords(entry, data, k, cb_data, out) ==
    IF k > Len(data) THEN [out |-> out, cb_data |-> cb_data]
    ELSE IF entry.ts >= data[k].ts
         THEN LET c == cb_check(entry, data[k], cb_data)
              IN IF c.keep
                 THEN ScanRecords(entry, data, k + 1, c.cb_data, Append(out, data[k]))
                 ELSE ScanRecords(entry, data, k + 1, c.cb_data, out)
         ELSE ScanRecords(entry, data, k + 1, cb_data, out)

\* Mutant of HelperOutput: when the new entry is not admitted the kept
\* records are not written either.
HelperOutput_drop_on_deny(entry, data) ==
    LET scan == ScanRecords(entry, data, 1, NewCbData, <<>>)
        adm  == cb_check(entry, NULL, scan.cb_data).keep
    IN [kept |-> scan.out, admitted |-> adm,
        out |-> IF adm THEN Append(scan.out, entry) ELSE <<>>]

\* the scan and the final cb_check(entry, NULL, cb_data): what the helper
\* writes to the temporary file when no write fails
HelperOutput(entry, data) ==
    LET scan == ScanRecords(entry, data, 1, NewCbData, <<>>)
        adm  == cb_check(entry, NULL, scan.cb_data).keep
    IN [kept |-> scan.out, admitted |-> adm,
        out |-> IF adm THEN Append(scan.out, entry) ELSE scan.out]

\* the writes of one transaction: all of them succeed, or the n-th
\* apr_file_write fails and the file holds the records written before it
WriteTmpFile(fs, name, out) ==
    {[status |-> APR_SUCCESS, fs |-> FsPut(fs, name, out)]}
    \cup {[status |-> APR_EGENERAL, fs |-> FsPut(fs, name, SubSeq(out, 1, n - 1))] :
            n \in 1..Len(out)}

\* Mutant of RenameTmpFile: a rename done as unlink-then-link, which fails
\* after the ledger file is gone.
RenameTmpFile_unlink_first(fs, name, filepath) ==
    {[status |-> APR_SUCCESS, fs |-> FsPut(FsRemove(fs, name), filepath, fs[name])],
     [status |-> APR_EGENERAL, fs |-> FsRemove(fs, filepath)]}

\* Mutant of RenameTmpFile: the records of the temporary file are appended
\* to the ledger file instead of replacing it.
RenameTmpFile_append(fs, name, filepath) ==
    {[status |-> APR_SUCCESS,
      fs |-> FsPut(FsRemove(fs, name), filepath,
                   (IF filepath \in DOMAIN fs THEN fs[filepath] ELSE <<>>) \o fs[name])],
     [status |-> APR_EGENERAL, fs |-> fs]}

\* apr_file_rename(tmp_filepath, filepath) and the return that follows it
RenameTmpFile(fs, name, filepath) ==
    {[status |-> APR_SUCCESS, fs |-> FsPut(FsRemove(fs, name), filepath, fs[name])],
     [status |-> APR_EGENERAL, fs |-> fs]}

\* a failure the file system injects counts against MaxFaults
FaultOk(status) == status = APR_EGENERAL => faults < MaxFaults
FaultCount(status) == IF status = APR_EGENERAL THEN faults + 1 ELSE faults

\* a caller that is not inside the helper; status is what its last call
\* returned ("none" before the first)
IdleTxn ==
    [pc |-> "idle", entry |-> [ts |-> 0, payload |-> 0], snap |-> <<>>,
     kept |-> <<>>, admitted |-> FALSE, status |-> "none"]

InHelper(p) == txn[p].pc \in {"tmp_open", "mapped", "closed"}

\* The whole helper, run without interference: the set of its outcomes, each
\* the status returned, the files afterwards, the records it mapped (snap),
\* the records it kept and whether the final predicate call admitted the
\* new entry.
totp_check_n_update_file_helper(fs, filepath, entry) ==
    LET tmp == TmpFilePath(filepath, entry.ts)
        ret(st, f, snap, h) ==
            [status |-> st, fs |-> f, snap |-> snap,
             kept |-> h.kept, admitted |-> h.admitted]
        none == [kept |-> <<>>, admitted |-> FALSE]
        FromWrite(o2, h, o3) ==
            IF o3.status # APR_SUCCESS
            THEN {ret(o3.status, o3.fs, o2.data, h)}
            ELSE { ret(o4.status, o4.fs, o2.data, h) :
                     o4 \in RenameTmpFile(o3.fs, tmp, filepath) }
        FromTarget(o1, o2) ==
            IF o2.status \notin {APR_SUCCESS, APR_ENOENT}
            THEN {ret(o2.status, o1.fs, <<>>, none)}
            ELSE LET h == HelperOutput(entry, o2.data)
                 IN UNION { FromWrite(o2, h, o3) :
                              o3 \in WriteTmpFile(o1.fs, tmp, h.out) }
        FromTmp(o1) ==
            IF o1.status # APR_SUCCESS
            THEN {ret(o1.status, o1.fs, <<>>, none)}
            ELSE UNION { FromTarget(o1, o2) : o2 \in OpenTargetFile(o1.fs, filepath) }
    IN UNION { FromTmp(o1) : o1 \in OpenTmpFile(fs, tmp) }

\* one call of the helper by caller p, from start to return, with an entry
\* of any timestamp and payload
LedgerCall(p) ==
    /\ \E ts \in EntryTimes, payload \in Payloads :
         \E c \in totp_check_n_update_file_helper(
                     ledgerFs, LedgerPath, [ts |-> ts, payload |-> payload]) :
            /\ FaultOk(c.status)
            /\ faults' = FaultCount(c.status)
            /\ ledgerFs' = c.fs
            /\ txn' = [txn EXCEPT ![p] =
                         [IdleTxn EXCEPT
                            !.pc = "returned",
                            !.entry = [ts |-> ts, payload |-> payload],
                            !.snap = c.snap, !.kept = c.kept,
                            !.admitted = c.admitted, !.status = c.status]]
    /\ UNCHANGED authVars
    /\ UNCHANGED probe
    /\ UNCHANGED inflight

\* lines 166-185: the call starts and creates its temporary file
TxnBegin(p) ==
    /\ ~InHelper(p)
    /\ \E o \in OpenTmpFile(ledgerFs, TmpFilePath(LedgerPath, now)) :
         /\ FaultOk(o.status)
         /\ faults' = FaultCount(o.status)
         /\ ledgerFs' = o.fs
         /\ txn' = [txn EXCEPT ![p] =
                      [IdleTxn EXCEPT
                         !.entry = [ts |-> now, payload |-> p],
                         !.pc = IF o.status = APR_SUCCESS
                                THEN "tmp_open" ELSE "returned",
                         !.status = o.status]]
    /\ UNCHANGED authVars
    /\ UNCHANGED probe
    /\ UNCHANGED inflight

\* lines 187-222: the ledger file is opened and mapped
TxnOpenTarget(p) ==
    /\ txn[p].pc = "tmp_open"
    /\ \E o \in OpenTargetFile(ledgerFs, LedgerPath) :
       /\ FaultOk(o.status)
       /\ faults' = FaultCount(o.status)
       /\ txn' = [txn EXCEPT ![p] =
                    IF o.status \in {APR_SUCCESS, APR_ENOENT}
                    THEN [@ EXCEPT !.pc = "mapped", !.snap = o.data]
                    ELSE [@ EXCEPT !.pc = "returned", !.status = o.status]]
    /\ UNCHANGED <<ledgerFs>>
    /\ UNCHANGED authVars
    /\ UNCHANGED probe
    /\ UNCHANGED inflight

\* lines 223-282: the scan, the final predicate call, the writes, the close
TxnScan(p) ==
    /\ txn[p].pc = "mapped"
    /\ LET h == HelperOutput(txn[p].entry, txn[p].snap)
       IN \E o \in WriteTmpFile(ledgerFs,
                       TmpFilePath(LedgerPath, txn[p].entry.ts), h.out) :
            /\ FaultOk(o.status)
            /\ faults' = FaultCount(o.status)
            /\ ledgerFs' = o.fs
            /\ txn' = [txn EXCEPT ![p] =
                         [@ EXCEPT !.kept = h.kept, !.admitted = h.admitted,
                                   !.pc = IF o.status = APR_SUCCESS
                                          THEN "closed" ELSE "returned",
                                   !.status = IF o.status = APR_SUCCESS
                                              THEN @ ELSE o.status]]
    /\ UNCHANGED authVars
    /\ UNCHANGED probe
    /\ UNCHANGED inflight

\* lines 284-292: the rename and the return
TxnRename(p) ==
    /\ txn[p].pc = "closed"
    /\ \E o \in RenameTmpFile(ledgerFs,
                    TmpFilePath(LedgerPath, txn[p].entry.ts), LedgerPath) :
         /\ FaultOk(o.status)
         /\ faults' = FaultCount(o.status)
         /\ ledgerFs' = o.fs
         /\ txn' = [txn EXCEPT ![p] =
                      [@ EXCEPT !.pc = "returned", !.status = o.status]]
    /\ UNCHANGED authVars
    /\ UNCHANGED probe
    /\ UNCHANGED inflight

\* the clock of the ledger advances
LedgerTick ==
    /\ now < MaxLedgerTime
    /\ now' = now + 1
    /\ UNCHANGED <<conf, stateFiles, result, grantLog, lastGrant>>
    /\ UNCHANGED ledgerVars
    /\ UNCHANGED probe
    /\ UNCHANGED inflight

(***************************************************************************)
(* The code generator on its own: generate_totp_code applied to a secret   *)
(* and a step, and its truncation applied to a given 20-byte MAC.          *)
(***************************************************************************)
MaxGenStep == 24

\* non-empty secrets: one byte, all bits set, a text key, a 20-byte key
GenSecrets ==
    { <<1>>, <<255>>, <<72, 101, 108, 108, 111>>, [j \in 1..20 |-> (7 * j) % 256] }

\* the steps 0..MaxGenStep and steps at byte boundaries of the challenge
GenSteps == (0..MaxGenStep) \cup {255, 256, 65535, 65536, 16777216, 2147483647}

\* 20-byte MAC values: every value of the last byte (every offset, with the
\* upper four bits set or not) over bodies of all zero, all 0x7F, all 0x80
\* and all 0xFF bytes
SampleMacs ==
    { [j \in 1..SHA1_DIGEST_LENGTH |-> IF j = SHA1_DIGEST_LENGTH THEN last ELSE body] :
        last \in 0..255, body \in {0, 127, 128, 255} }

NoProbe == [kind |-> "none", secret |-> <<>>, step |-> 0, mac |-> <<>>,
            reads |-> {}, code |-> 0]

\* one call generate_totp_code(challenge, secret, secret_len)
GenerateCode ==
    /\ \E secret \in GenSecrets, step \in GenSteps :
         LET hash == hmac_sha1(secret, ChallengeBytes(step, 8)) IN
         probe' = [kind |-> "code", secret |-> secret, step |-> step, mac |-> hash,
                   reads |-> TruncationReads(hash),
                   code |-> generate_totp_code(step, secret)]
    /\ UNCHANGED authVars
    /\ UNCHANGED ledgerVars
    /\ UNCHANGED inflight

\* the part of generate_totp_code after hmac_sha1 has filled hash
TruncateMac ==
    /\ \E hash \in SampleMacs :
         probe' = [kind |-> "mac", secret |-> <<>>, step |-> 0, mac |-> hash,
                   reads |-> TruncationReads(hash),
                   code |-> DynamicTruncate(hash)]
    /\ UNCHANGED authVars
    /\ UNCHANGED ledgerVars
    /\ UNCHANGED inflight

(***************************************************************************)
(* The record loader on its own: the loop of get_user_totp_config over the *)
(* lines of a record file.                                                 *)
(***************************************************************************)
\* unsigned int scratch_codes[10]
ScratchSlots == 10

\* the number of lines of any kind that follow the all-digit lines of a file
MaxTailLines == 3

\* the k-th line of a file as an eight-digit scratch code: "1000000k"
ScratchLine(k) == FormatU(10000000 + k, 8)

\* the kinds of line after the secret: a scratch code, a scratch code with a
\* letter in it ("1000000kx" without its last digit), a blank line, a
\* directive
LineKinds == {"code", "bad", "blank", "directive"}

LineOfKind(kind, k) ==
    CASE kind = "code"      -> ScratchLine(k)
      [] kind = "bad"       -> SubSeq(ScratchLine(k), 1, 7) \o <<120>>
      [] kind = "blank"     -> <<>>
      [] kind = "directive" -> LineDisallowReuse

\* the sequences of line kinds of length 0..MaxTailLines
TailKinds == UNION { [1..n -> LineKinds] : n \in 0..MaxTailLines }

\* a secret line, n scratch codes, then the lines of the kinds in tail
RecordFile(n, tail) ==
    <<LineSecretB>> \o [k \in 1..n |-> ScratchLine(k)]
                    \o [j \in 1..Len(tail) |-> LineOfKind(tail[j], n + j)]

\* the record files the loader is applied to
RecordFiles == { RecordFile(n, tail) : n \in 0..ScratchSlots, tail \in TailKinds }

\* a record file that has not been loaded yet
FileProbe(lines) == [kind |-> "file", lines |-> lines, st |-> "none", cfg |-> ZeroConfig]

\* one run of the loop of get_user_totp_config over the lines of the file
LoadRecord ==
    /\ probe.kind = "file"
    /\ LET r == ParseLines(probe.lines, 1, ZeroConfig)
       IN probe' = [probe EXCEPT !.kind = "load", !.st = r.st, !.cfg = r.cfg]
    /\ UNCHANGED authVars
    /\ UNCHANGED ledgerVars
    /\ UNCHANGED inflight

(***************************************************************************)
(* authn_totp_check_password run by two request threads at the same time.  *)
(* The only state the calls share is the state directory, and the only     *)
(* operation of a call on it is the apr_file_open of mark_code_invalid, so *)
(* a call is two steps: everything up to the first matching candidate, and *)
(* the call of mark_code_invalid with the return that follows it.          *)
(***************************************************************************)
\* the <<user, password>> pairs the threads present: the code of "a" for the
\* first step (a candidate while that step is inside the window of "a"), the
\* two scratch codes of "a", and the scratch code of "b", which is also the
\* first one of "a"
ConcAttempts ==
    ({UserA} \X (CodesOf(KeyA, {FirstStep}) \cup {LineScratch1, LineScratch2}))
      \cup {<<UserB, LineScratch1>>}

\* pc: "idle", "matched" (a candidate compared equal, mark_code_invalid is
\* about to be called), "returned".  used: whether this user had been
\* granted this password when the call began.
IdleCall ==
    [ pc |-> "idle", user |-> <<>>, password |-> <<>>, time |-> 0,
      matched |-> FALSE, used |-> FALSE, markErr |-> "not_called",
      verdict |-> AUTH_DENIED ]

\* the call up to the first matching candidate: validation, load, the loop
\* selected by the length of the password
CallBegin(p) ==
    /\ inflight[p].pc = "idle"
    /\ \E at \in ConcAttempts :
         LET user == at[1]
             password == at[2]
             load == get_user_totp_config(conf, user)
             call == [IdleCall EXCEPT !.user = user, !.password = password,
                                      !.time = now,
                                      !.used = (<<user, password>> \in grantLog)]
             hit == /\ AllAlnum(user)
                    /\ PasswordFormatOk(password)
                    /\ load.st = "ok"
                    /\ CodeMatches(load.cfg, get_timestamp(now), password)
             fault == AllAlnum(user) /\ PasswordFormatOk(password) /\ load.st = "fault"
         IN inflight' = [inflight EXCEPT ![p] =
                IF hit THEN [call EXCEPT !.pc = "matched", !.matched = TRUE]
                ELSE [call EXCEPT !.pc = "returned",
                                  !.verdict = IF fault THEN FAULT ELSE AUTH_DENIED]]
    /\ UNCHANGED authVars
    /\ UNCHANGED ledgerVars
    /\ UNCHANGED probe

\* if (mark_code_invalid(r, conf, user, password)) return AUTH_GRANTED;
\* else break;  ... return AUTH_DENIED;
CallMark(p) ==
    /\ inflight[p].pc = "matched"
    /\ \E m \in mark_code_invalid(conf, stateFiles, inflight[p].user, inflight[p].password) :
         /\ Cardinality(m.files) <= MaxFiles
         /\ stateFiles' = m.files
         /\ inflight' = [inflight EXCEPT ![p].pc = "returned",
                                         ![p].markErr = m.err,
                                         ![p].verdict = VerdictOnMatch(m.ok)]
         /\ IF VerdictOnMatch(m.ok) = AUTH_GRANTED
            THEN /\ grantLog' = grantLog \cup {<<inflight[p].user, inflight[p].password>>}
                 /\ lastGrant' = [user |-> inflight[p].user, time |-> now]
            ELSE UNCHANGED <<grantLog, lastGrant>>
    /\ UNCHANGED <<now, conf, result>>
    /\ UNCHANGED ledgerVars
    /\ UNCHANGED probe

\* the thread is given its next request
CallReturn(p) ==
    /\ inflight[p].pc = "returned"
    /\ inflight' = [inflight EXCEPT ![p] = IdleCall]
    /\ UNCHANGED authVars
    /\ UNCHANGED ledgerVars
    /\ UNCHANGED probe

\* time passes while calls are running
ConcTick ==
    /\ now < StartTime + MaxTime * TickSeconds
    /\ now' = now + TickSeconds
    /\ UNCHANGED <<conf, stateFiles, result, grantLog, lastGrant>>
    /\ UNCHANGED ledgerVars
    /\ UNCHANGED probe
    /\ UNCHANGED inflight

(***************************************************************************)
(* Specification.                                                          *)
(***************************************************************************)
NoGrant == [user |-> <<>>, time |-> 0]

Init ==
    /\ now = StartTime
    /\ conf \in [tokenDir : {NULL, TokenDirPath}, stateDir : {NULL, StateDirPath}]
    /\ stateFiles = {}
    /\ result = NoCall("none")
    /\ grantLog = {}
    /\ lastGrant = NoGrant
    /\ ledgerFs = EmptyFs
    /\ txn = [p \in Procs |-> IdleTxn]
    /\ faults = 0
    /\ probe = NoProbe
    /\ inflight = [p \in Procs |-> IdleCall]

\* time passes between two requests
Tick ==
    /\ now < StartTime + MaxTime * TickSeconds
    /\ now' = now + TickSeconds
    /\ UNCHANGED <<conf, stateFiles, result, grantLog, lastGrant>>
    /\ UNCHANGED ledgerVars
    /\ UNCHANGED probe
    /\ UNCHANGED inflight

\* one call of authn_totp_check_password; the model follows the state
\* directory up to MaxFiles files
CheckPassword ==
    \E at \in Attempts :
      \E c \in authn_totp_check_password(conf, stateFiles, now, at[1], at[2]) :
           /\ Cardinality(c.files) <= MaxFiles
           /\ result' = [c.out EXCEPT !.seq = 1 - result.seq]
           /\ stateFiles' = c.files
           /\ IF c.out.verdict = AUTH_GRANTED
              THEN /\ grantLog' = grantLog \cup {<<at[1], at[2]>>}
                   /\ lastGrant' = [user |-> at[1], time |-> now]
              ELSE UNCHANGED <<grantLog, lastGrant>>
           /\ UNCHANGED <<now, conf>>
           /\ UNCHANGED ledgerVars
           /\ UNCHANGED probe
           /\ UNCHANGED inflight

\* one call of authn_totp_get_realm_hash
GetRealmHash ==
    \E user \in Users, realm \in Realms :
        /\ result' = [authn_totp_get_realm_hash(conf, now, user, realm)
                          EXCEPT !.seq = 1 - result.seq]
        /\ UNCHANGED <<now, conf, stateFiles, grantLog, lastGrant>>
        /\ UNCHANGED ledgerVars
        /\ UNCHANGED probe
        /\ UNCHANGED inflight

Next == Tick \/ CheckPassword \/ GetRealmHash

Spec == Init /\ [][Next]_vars

\* the ledger on its own, one call of the helper after the other
LedgerInit ==
    /\ now = 0
    /\ conf = [tokenDir |-> TokenDirPath, stateDir |-> StateDirPath]
    /\ stateFiles = {}
    /\ result = NoCall("none")
    /\ grantLog = {}
    /\ lastGrant = NoGrant
    /\ ledgerFs = EmptyFs
    /\ txn = [p \in Procs |-> IdleTxn]
    /\ faults = 0
    /\ probe = NoProbe
    /\ inflight = [p \in Procs |-> IdleCall]

LedgerNext == LedgerCall(1)

LedgerSpec == LedgerInit /\ [][LedgerNext]_vars

\* the callers run the helper on one ledger file at the same time,
\* interleaved step by step; a new entry carries the time at which its call
\* started
RaceNext ==
    \/ LedgerTick
    \/ \E p \in Procs : TxnBegin(p) \/ TxnOpenTarget(p) \/ TxnScan(p) \/ TxnRename(p)

RaceSpec == LedgerInit /\ [][RaceNext]_vars

\* the code generator applied to secrets and steps, and its truncation
\* applied to MAC values
GenNext == GenerateCode \/ TruncateMac

GenSpec == LedgerInit /\ [][GenNext]_vars

\* the record loader applied to record files
LoadNext == LoadRecord

\* two request threads, each running authn_totp_check_password calls one
\* after the other, with the calls of the two threads interleaved
ConcNext ==
    \/ ConcTick
    \/ \E p \in Procs : CallBegin(p) \/ CallMark(p) \/ CallReturn(p)

ConcSpec == Init /\ [][ConcNext]_vars

LoadInit ==
    /\ now = 0
    /\ conf = [tokenDir |-> TokenDirPath, stateDir |-> StateDirPath]
    /\ stateFiles = {}
    /\ result = NoCall("none")
    /\ grantLog = {}
    /\ lastGrant = NoGrant
    /\ ledgerFs = EmptyFs
    /\ txn = [p \in Procs |-> IdleTxn]
    /\ faults = 0
    /\ probe \in { FileProbe(lines) : lines \in RecordFiles }
    /\ inflight = [p \in Procs |-> IdleCall]

LoadSpec == LoadInit /\ [][LoadNext]_vars

TypeOK ==
    /\ now \in StartTime..(StartTime + MaxTime * TickSeconds)
    /\ result.verdict \in {AUTH_GRANTED, AUTH_DENIED, AUTH_USER_FOUND,
                           AUTH_USER_NOT_FOUND, FAULT}

(***************************************************************************)
(* Properties.                                                             *)
(***************************************************************************)
\* what the loader returns for a user under the configuration of the run
LoadOf(user) == get_user_totp_config(conf, user)

\* the presented code is the code of one of the steps T0 - window_size ..
\* T0 + window_size, T0 the step of time t
InWindow(cfg, t, password) ==
    \E k \in (-cfg.window_size)..cfg.window_size :
        generate_totp_code(get_timestamp(t) + k, cfg.shared_key) = apr_atoi64(password)

\* the presented code is the code of a step just outside that window
JustOutsideWindow(cfg, t, password) ==
    \E k \in {-(cfg.window_size + 1), cfg.window_size + 1} :
        generate_totp_code(get_timestamp(t) + k, cfg.shared_key) = apr_atoi64(password)

\* C1: once a 6-digit code has been granted to a user whose record sets
\* DISALLOW_REUSE, every later authn_totp_check_password call of that user
\* with the same code is denied (at any later time, so in particular within
\* any retention horizon and while the code is still inside the window).
C1_ReuseDenied ==
    [][ ( /\ result'.seq # result.seq
          /\ result'.op = "check_password"
          /\ Len(result'.password) = 6
          /\ LoadOf(result'.user).cfg.disallow_reuse
          /\ <<result'.user, result'.password>> \in grantLog )
        => result'.verdict = AUTH_DENIED ]_vars

\* a granted code is presented again while it is still inside the window, and
\* is denied
C1_Witness ==
    /\ result.op = "check_password"
    /\ result.user = UserA
    /\ Len(result.password) = 6
    /\ LoadOf(UserA).st = "ok"
    /\ LoadOf(UserA).cfg.disallow_reuse
    /\ InWindow(LoadOf(UserA).cfg, result.time, result.password)
    /\ result.matched
    /\ <<result.user, result.password>> \in grantLog
    /\ result.verdict = AUTH_DENIED
    /\ result.markErr = "exists"

\* C2: a well-formed 6-digit code that equals the code of a step inside the
\* window, presented for a user whose record sets neither DISALLOW_REUSE nor
\* a rate limit, is granted, at every such attempt (the state directory being
\* configured and the file system not failing).
C2_WindowGrant ==
    ( /\ result.op = "check_password"
      /\ AllAlnum(result.user)
      /\ Len(result.password) = 6
      /\ AllDigits(result.password)
      /\ LoadOf(result.user).st = "ok"
      /\ ~LoadOf(result.user).cfg.disallow_reuse
      /\ LoadOf(result.user).cfg.rate_limit_count = 0
      /\ InWindow(LoadOf(result.user).cfg, result.time, result.password)
      /\ result.markErr \notin {"unset", "io"} )
    => result.verdict = AUTH_GRANTED

\* C3: for a loaded record and a 6-digit code, a candidate matches exactly
\* when the code is the code of one of the 2 * window_size + 1 steps around
\* the current one; a code that is none of them is denied without
\* mark_code_invalid being called, also when it is the code of a step just
\* outside the window.
C3_WindowDeny ==
    ( /\ result.op = "check_password"
      /\ Len(result.password) = 6
      /\ result.loaded # <<>>
      /\ LoadOf(result.user).st = "ok" )
    => LET inside == InWindow(LoadOf(result.user).cfg, result.time, result.password)
       IN /\ result.matched <=> inside
          /\ ~inside => /\ result.verdict = AUTH_DENIED
                        /\ result.markErr = "not_called"

\* the code of the step just outside the window of "a" is presented and
\* denied, with the state directory configured
C3_Witness ==
    /\ result.op = "check_password"
    /\ result.user = UserA
    /\ Len(result.password) = 6
    /\ LoadOf(UserA).st = "ok"
    /\ conf.stateDir # NULL
    /\ ~InWindow(LoadOf(UserA).cfg, result.time, result.password)
    /\ JustOutsideWindow(LoadOf(UserA).cfg, result.time, result.password)
    /\ result.verdict = AUTH_DENIED

\* a presented credential of exactly 6 or exactly 8 characters, all digits
WellFormed(password) ==
    /\ Len(password) = 6 \/ Len(password) = 8
    /\ \A k \in 1..Len(password) : password[k] \in 48..57

\* the 8-digit password is one of the scratch codes of the user's record
ScratchConfigured(user, password) ==
    /\ Len(password) = 8
    /\ WellFormed(password)
    /\ AllAlnum(user)
    /\ LoadOf(user).st = "ok"
    /\ \E k \in 1..Len(LoadOf(user).cfg.scratch_codes) :
           LoadOf(user).cfg.scratch_codes[k] = apr_atoi64(password)

\* C4, as claimed: a configured scratch code is granted on its first
\* presentation and denied on every later one.  (The first presentation is
\* granted, so a presentation is granted exactly when the code has not been
\* granted before.)
C4_ScratchExactlyOnce ==
    [][ ( /\ result'.seq # result.seq
          /\ result'.op = "check_password"
          /\ ScratchConfigured(result'.user, result'.password) )
        => ( result'.verdict = AUTH_GRANTED
               <=> <<result'.user, result'.password>> \notin grantLog ) ]_vars

\* C4, amended: a configured scratch code is denied at every presentation
\* after it has been granted, at any time, and a presentation before that is
\* granted when the state directory is configured and the file system does
\* not fail.
C4_ScratchAtMostOnce ==
    [][ ( /\ result'.seq # result.seq
          /\ result'.op = "check_password"
          /\ ScratchConfigured(result'.user, result'.password) )
        => /\ <<result'.user, result'.password>> \in grantLog
                => result'.verdict = AUTH_DENIED
           /\ ( /\ <<result'.user, result'.password>> \notin grantLog
                /\ conf.stateDir # NULL
                /\ result'.markErr # "io" )
                => result'.verdict = AUTH_GRANTED ]_vars

\* the second scratch code of "a" was granted and is presented again at a
\* later time, and is denied
C4_Witness ==
    /\ result.op = "check_password"
    /\ result.user = UserA
    /\ result.password = LineScratch2
    /\ ScratchConfigured(UserA, LineScratch2)
    /\ <<UserA, LineScratch2>> \in grantLog
    /\ lastGrant.user = UserA
    /\ lastGrant.time < result.time
    /\ result.verdict = AUTH_DENIED

\* a lower bound on the number of the user's admitted attempts within the
\* trailing rate_limit_seconds: 1 when the most recent grant is the user's and
\* less than rate_limit_seconds old, otherwise 0
RecentGrants(user) ==
    IF /\ lastGrant.user = user
       /\ now - lastGrant.time < LoadOf(user).cfg.rate_limit_seconds
    THEN 1 ELSE 0

\* C5: for a user whose record has rate_limit_count = N > 0, an attempt made
\* when N attempts of the user were already admitted within the trailing
\* rate_limit_seconds is denied even if its code matches.
C5_RateLimit ==
    [][ ( /\ result'.seq # result.seq
          /\ result'.op = "check_password"
          /\ LoadOf(result'.user).st = "ok"
          /\ LoadOf(result'.user).cfg.rate_limit_count > 0
          /\ RecentGrants(result'.user) >= LoadOf(result'.user).cfg.rate_limit_count )
        => result'.verdict = AUTH_DENIED ]_vars

\* C6: a presented credential that is not exactly 6 or 8 digits is denied
\* before the loader is called and before any state file is touched.
C6_FormatDenied ==
    [][ ( /\ result'.seq # result.seq
          /\ result'.op = "check_password"
          /\ ~WellFormed(result'.password) )
        => /\ result'.verdict = AUTH_DENIED
           /\ result'.loaded = <<>>
           /\ result'.markErr = "not_called"
           /\ stateFiles' = stateFiles ]_vars

\* a 6-character password with a letter is presented for a user whose record
\* exists, and is denied without a load
C6_Witness ==
    /\ result.op = "check_password"
    /\ result.user = UserA
    /\ LoadOf(UserA).st = "ok"
    /\ Len(result.password) = 6
    /\ ~WellFormed(result.password)
    /\ result.verdict = AUTH_DENIED
    /\ result.loaded = <<>>

\* C7: a call is granted only when a candidate matched and mark_code_invalid
\* created the state file; when the code matches and mark_code_invalid fails
\* (file exists, state directory unset, file-system error) the call is denied.
C7_FailClosed ==
    result.op = "check_password"
    => /\ result.verdict = AUTH_GRANTED
            => /\ result.matched
               /\ result.marked
               /\ conf.stateDir # NULL
               /\ CodeFilePath(conf.stateDir, result.user, result.password)
                      \in stateFiles
       /\ (result.matched /\ ~result.marked) => result.verdict = AUTH_DENIED
       /\ (result.matched /\ conf.stateDir = NULL) => result.verdict = AUTH_DENIED
       /\ result.markErr \in {"unset", "exists", "io"}
            => result.verdict = AUTH_DENIED

\* the code matches, the state directory is configured, the create fails for
\* a reason of the file system, and the call is denied
C7_Witness ==
    /\ result.op = "check_password"
    /\ result.matched
    /\ conf.stateDir # NULL
    /\ result.markErr = "io"
    /\ CodeFilePath(conf.stateDir, result.user, result.password) \notin stateFiles
    /\ result.verdict = AUTH_DENIED

\* the record has a first non-blank, non-directive line, and it is Base32
HasValidSecretLine(lines) ==
    LET cand == { k \in 1..Len(lines) : lines[k] # <<>> /\ lines[k][1] # 34 }
    IN /\ cand # {}
       /\ LET first == CHOOSE k \in cand : \A j \in cand : k <= j
          IN base32_decode(lines[first], Len(lines[first])).ok

\* C8: for a user whose record has no valid secret line, no
\* authn_totp_check_password call is granted and no authn_totp_get_realm_hash
\* call returns a hash.
C8_NoSecretNoAccess ==
    ( /\ result.op \in {"check_password", "get_realm_hash"}
      /\ conf.tokenDir # NULL
      /\ Path(conf.tokenDir, result.user) \in DOMAIN TokenFiles
      /\ ~HasValidSecretLine(TokenFiles[Path(conf.tokenDir, result.user)]) )
    => /\ result.verdict \notin {AUTH_GRANTED, AUTH_USER_FOUND}
       /\ result.hash = <<>>

\* C9: authn_totp_check_password returns AUTH_GRANTED or AUTH_DENIED only, and
\* AUTH_DENIED when the token directory is unset, when the user has no record
\* and when the record is malformed (no valid secret line);
\* authn_totp_get_realm_hash returns AUTH_USER_NOT_FOUND in the same three cases.
C9_VerdictCollapse ==
    LET noStore == conf.tokenDir = NULL
        path == Path(conf.tokenDir, result.user)
        missing == ~noStore /\ path \notin DOMAIN TokenFiles
        malformed == /\ ~noStore
                     /\ path \in DOMAIN TokenFiles
                     /\ ~HasValidSecretLine(TokenFiles[path])
    IN /\ result.op = "check_password"
            => result.verdict \in {AUTH_GRANTED, AUTH_DENIED}
       /\ (result.op = "check_password" /\ (noStore \/ missing \/ malformed))
            => result.verdict = AUTH_DENIED
       /\ (result.op = "get_realm_hash" /\ (noStore \/ missing \/ malformed))
            => result.verdict = AUTH_USER_NOT_FOUND

\* C10: get_user_totp_config is never called with a username that has a
\* character that is not alphanumeric.
C10_LoaderUsernameValidated ==
    \A k \in 1..Len(result.loaded) : AllAlnum(result.loaded[k])

\* C11: a call of authn_totp_get_realm_hash leaves the state directory as it
\* was and never calls mark_code_invalid; when the user is found the hash is
\* that of user:realm:code with the code of the current step only; and every
\* authn_totp_check_password call of that user has the same outcomes after
\* the call as before it.
C11_RealmHashFrame ==
    [][ ( /\ result'.seq # result.seq
          /\ result'.op = "get_realm_hash" )
        => /\ stateFiles' = stateFiles
           /\ result'.markErr = "not_called"
           /\ ~result'.marked
           /\ result'.verdict = AUTH_USER_FOUND
                => result'.hash =
                     result'.user \o <<58>> \o result'.password \o <<58>>
                       \o FormatU(TotpCode(now \div 30,
                                    LoadOf(result'.user).cfg.shared_key), 6)
           /\ \A at \in Attempts :
                at[1] = result'.user
                  => authn_totp_check_password(conf', stateFiles', now', at[1], at[2])
                       = authn_totp_check_password(conf, stateFiles, now, at[1], at[2]) ]_vars

\* the hash of user "a" is asked for after a code of "a" was granted: the
\* call finds the user while the state directory holds a file
C11_Witness ==
    /\ result.op = "get_realm_hash"
    /\ result.user = UserA
    /\ result.verdict = AUTH_USER_FOUND
    /\ result.hash # <<>>
    /\ lastGrant.user = UserA
    /\ stateFiles # {}

(***************************************************************************)
(* Properties of the ledger transaction.                                   *)
(***************************************************************************)
\* the records of the ledger file, none when there is no file
LedgerOf(fs) == IF LedgerPath \in DOMAIN fs THEN fs[LedgerPath] ELSE <<>>

\* the record is within the retention horizon of the entry: not dated after
\* it and younger than RetentionSeconds
WithinHorizon(entry, rec) ==
    rec.ts <= entry.ts /\ entry.ts - rec.ts < RetentionSeconds

\* the records of a file that are within the retention horizon, in order
Retained(entry, data) ==
    SelectSeq(data, LAMBDA rec : WithinHorizon(entry, rec))

\* the final predicate call admits the entry after these retained records
Admits(entry, retained) ==
    /\ Len(retained) < AdmitCap
    /\ \A k \in 1..Len(retained) : retained[k].payload # entry.payload

\* C12: after a call of the helper that returned APR_SUCCESS the ledger file
\* holds the records of the file before the call that are within the
\* retention horizon, in order, followed by the new entry iff the final
\* predicate call admitted it; no record is dated after the new entry and
\* there are at most AdmitCap records.
C12_LedgerAfterTransaction ==
    [][ txn'[1].status = APR_SUCCESS
        => LET e == txn'[1].entry
               before == LedgerOf(ledgerFs)
               after == LedgerOf(ledgerFs')
               retained == Retained(e, before)
           IN /\ LedgerPath \in DOMAIN ledgerFs'
              /\ txn'[1].admitted <=> Admits(e, retained)
              /\ after = IF txn'[1].admitted THEN Append(retained, e) ELSE retained
              /\ \A k \in 1..Len(after) : after[k].ts <= e.ts
              /\ Len(after) <= AdmitCap ]_vars

\* a call returned APR_SUCCESS for a ledger file that held a record dated
\* after the new entry: that record is gone, an older one was kept and the
\* new entry was appended
C12_Witness ==
    /\ txn[1].pc = "returned"
    /\ txn[1].status = APR_SUCCESS
    /\ txn[1].admitted
    /\ \E k \in 1..Len(txn[1].snap) : txn[1].snap[k].ts > txn[1].entry.ts
    /\ Len(txn[1].kept) = 1
    /\ LedgerOf(ledgerFs) = Append(txn[1].kept, txn[1].entry)

\* C13: a call whose new entry is not admitted still returns APR_SUCCESS
\* with the ledger file renamed into place; the file then holds exactly the
\* records of the file before the call that are within the retention
\* horizon, unchanged and in their order, the temporary file is gone, and
\* the same call run again leaves every file as it is.
C13_CompactionOnDeny ==
    [][ (txn'[1].status = APR_SUCCESS /\ ~txn'[1].admitted)
        => LET e == txn'[1].entry
               before == LedgerOf(ledgerFs)
           IN /\ LedgerPath \in DOMAIN ledgerFs'
              /\ ledgerFs'[LedgerPath] = Retained(e, before)
              /\ TmpFilePath(LedgerPath, e.ts) \notin DOMAIN ledgerFs'
              /\ \A c \in totp_check_n_update_file_helper(ledgerFs', LedgerPath, e) :
                    c.status = APR_SUCCESS => (~c.admitted /\ c.fs = ledgerFs') ]_vars

\* a call that was not admitted returned APR_SUCCESS and removed a record of
\* the file it read while keeping another
C13_Witness ==
    /\ txn[1].pc = "returned"
    /\ txn[1].status = APR_SUCCESS
    /\ ~txn[1].admitted
    /\ Len(txn[1].kept) >= 1
    /\ Len(txn[1].snap) > Len(txn[1].kept)
    /\ \E k \in 1..Len(txn[1].snap) :
          txn[1].entry.ts - txn[1].snap[k].ts >= RetentionSeconds
    /\ LedgerOf(ledgerFs) = txn[1].kept

RenameDone(p) ==
    /\ txn[p].pc = "closed"
    /\ txn'[p].pc = "returned"
    /\ txn'[p].status = APR_SUCCESS

\* C15: concurrent calls are not serialized.  A successful rename replaces
\* the ledger file by the records the renaming caller computed from the file
\* it mapped, whatever the ledger file holds by then: an entry that another
\* caller installed after that mapping is not in the file afterwards.
C15_LastRenameWins ==
    [][ \A p \in Procs :
          RenameDone(p)
          => /\ LedgerOf(ledgerFs') =
                  (IF txn[p].admitted THEN Append(txn[p].kept, txn[p].entry)
                                      ELSE txn[p].kept)
             /\ \A q \in Procs \ {p} :
                  ( /\ txn[q].pc = "returned"
                    /\ txn[q].status = APR_SUCCESS
                    /\ txn[q].admitted
                    /\ \A k \in 1..Len(txn[p].snap) : txn[p].snap[k] # txn[q].entry )
                  => \A k \in 1..Len(LedgerOf(ledgerFs')) :
                        LedgerOf(ledgerFs')[k] # txn[q].entry ]_vars

\* the lost update: both callers mapped the same (empty) ledger, both were
\* admitted with entries of different timestamps, both renames succeeded,
\* and the ledger file holds one of the two entries only
C15_Witness ==
    /\ \A p \in Procs : /\ txn[p].pc = "returned"
                        /\ txn[p].status = APR_SUCCESS
                        /\ txn[p].admitted
                        /\ txn[p].snap = <<>>
    /\ txn[1].entry.ts # txn[2].entry.ts
    /\ Len(LedgerOf(ledgerFs)) = 1
    /\ LedgerOf(ledgerFs)[1] \in {txn[1].entry, txn[2].entry}

\* C16: a call whose temporary file name (ledger path and timestamp of the
\* new entry) already exists returns the error of the exclusive create at
\* once: it maps nothing, and no file is created, changed or replaced.
C16_ExclusiveCreateCollision ==
    [][ \A p \in Procs :
          ( /\ ~InHelper(p)
            /\ txn'[p] # txn[p]
            /\ TmpFilePath(LedgerPath, now) \in DOMAIN ledgerFs )
          => /\ txn'[p].pc = "returned"
             /\ txn'[p].status = APR_EEXIST
             /\ txn'[p].snap = <<>>
             /\ ~txn'[p].admitted
             /\ ledgerFs' = ledgerFs ]_vars

\* caller 2 started while caller 1, with the same timestamp, was between the
\* creation of its temporary file and its rename: caller 2 got APR_EEXIST
C16_Witness ==
    /\ InHelper(1)
    /\ txn[2].pc = "returned"
    /\ txn[2].status = APR_EEXIST
    /\ txn[2].entry.ts = txn[1].entry.ts
    /\ faults = 0
    /\ TmpFilePath(LedgerPath, txn[1].entry.ts) \in DOMAIN ledgerFs

\* C17: whatever the secret, the step and the MAC, the four bytes read by the
\* truncation are inside the 20-byte MAC, at offset (last byte & 0x0F), and
\* the code is in 0..999999; a call with a secret and a step returns the
\* truncation of the MAC of that secret and step.
C17_CodeInRange ==
    probe.kind # "none"
    => /\ probe.reads = { (probe.mac[SHA1_DIGEST_LENGTH] % 16) + j : j \in 0..3 }
       /\ probe.reads \subseteq 0..(SHA1_DIGEST_LENGTH - 1)
       /\ probe.code \in 0..999999
       /\ probe.kind = "code"
          => /\ probe.secret # <<>>
             /\ probe.mac = hmac_sha1(probe.secret, ChallengeBytes(probe.step, 8))
             /\ probe.code = DynamicTruncate(probe.mac)

\* the MAC of all 0xFF bytes: offset 15, the last four bytes before the
\* offset byte are read, the sign bit is cleared, 0x7FFFFFFF mod 1000000
C17_Witness ==
    /\ probe.kind = "mac"
    /\ probe.mac[SHA1_DIGEST_LENGTH] = 255
    /\ probe.reads = 15..18
    /\ probe.mac[16] = 255
    /\ probe.code = 483647

\* the retention horizon of the reuse records, in seconds
ReuseHorizonSeconds == 30

\* C18: a six-digit code that matches in the window of a user, that was
\* granted to that user before, and whose grant (with every other grant of
\* the user) is at least the retention horizon old, is granted again when the
\* state directory is configured and the file system does not fail.
C18_ReuseBlockExpires ==
    [][ ( /\ result'.seq # result.seq
          /\ result'.op = "check_password"
          /\ Len(result'.password) = 6
          /\ result'.matched
          /\ <<result'.user, result'.password>> \in grantLog
          /\ lastGrant.user = result'.user
          /\ now - lastGrant.time >= ReuseHorizonSeconds
          /\ conf.stateDir # NULL
          /\ result'.markErr # "io" )
        => result'.verdict = AUTH_GRANTED ]_vars

\* C19: whenever a provider call has loaded the record of a user, the
\* record has window_size in 0..32, rate_limit_count in 0..5 and
\* rate_limit_seconds in 30..300.
C19_LoadedRanges ==
    \A k \in 1..Len(result.loaded) :
        LoadOf(result.loaded[k]).st = "ok"
        => /\ LoadOf(result.loaded[k]).cfg.window_size \in 0..32
           /\ LoadOf(result.loaded[k]).cfg.rate_limit_count \in 0..5
           /\ LoadOf(result.loaded[k]).cfg.rate_limit_seconds \in 30..300

\* C20: whenever a provider call loads a record file that has a valid secret
\* line, the load runs to the end of the file whatever its RATE_LIMIT
\* directive looks like, and in the loaded record a positive rate_limit_count
\* comes with rate_limit_seconds in 30..300.
C20_RateLimitNeverHalf ==
    \A k \in 1..Len(result.loaded) :
        ( /\ conf.tokenDir # NULL
          /\ Path(conf.tokenDir, result.loaded[k]) \in DOMAIN TokenFiles
          /\ HasValidSecretLine(TokenFiles[Path(conf.tokenDir, result.loaded[k])]) )
        => /\ LoadOf(result.loaded[k]).st = "ok"
           /\ result.verdict # FAULT
           /\ LoadOf(result.loaded[k]).cfg.rate_limit_count > 0
                => LoadOf(result.loaded[k]).cfg.rate_limit_seconds \in 30..300

\* a non-blank line that is not a directive
IsDataLine(line) == line # <<>> /\ line[1] # 34

\* the data lines of a file after its first data line (the secret) that
\* consist of digits only, in the order of the file
DigitLinesAfterSecret(lines) ==
    LET data   == { k \in 1..Len(lines) : IsDataLine(lines[k]) }
        secret == CHOOSE k \in data : \A j \in data : k <= j
        isCode(line) == IsDataLine(line) /\ \A i \in 1..Len(line) : line[i] \in 48..57
    IN IF data = {} THEN <<>>
       ELSE SelectSeq(SubSeq(lines, secret + 1, Len(lines)), isCode)

\* the value of a line of digits
RECURSIVE DigitsValue(_)
DigitsValue(line) ==
    IF line = <<>> THEN 0
    ELSE 10 * DigitsValue(SubSeq(line, 1, Len(line) - 1)) + (line[Len(line)] - 48)

\* C21: the load of a file with a valid secret line succeeds whatever its
\* later lines are, and scratch_codes is the values of the first 10 all-digit
\* data lines after the secret, in the order of the file: a line with a
\* non-digit character takes no slot, an all-digit line after the tenth is
\* dropped, and there are never more than 10 scratch codes.
C21_ScratchLoading ==
    probe.kind = "load"
    => LET digitLines == DigitLinesAfterSecret(probe.lines)
           kept == SubSeq(digitLines, 1, Min(Len(digitLines), 10))
       IN /\ probe.st = "ok"
          /\ Len(probe.cfg.scratch_codes) <= 10
          /\ probe.cfg.scratch_codes = [k \in 1..Len(kept) |-> DigitsValue(kept[k])]

\* nine scratch codes, a line with a letter, two more scratch codes: the
\* line with the letter took no slot, the tenth code is the line after it
\* and the eleventh code is dropped
C21_Witness ==
    /\ probe.kind = "load"
    /\ Len(probe.lines) = 13
    /\ ~AllDigits(probe.lines[11])
    /\ AllDigits(probe.lines[12]) /\ AllDigits(probe.lines[13])
    /\ Len(probe.cfg.scratch_codes) = 10
    /\ probe.cfg.scratch_codes[10] = 10000011
    /\ \A k \in 1..10 : probe.cfg.scratch_codes[k] # 10000012

\* the value of the password is one of the scratch codes of the record
InScratch(cfg, password) ==
    \E k \in 1..Len(cfg.scratch_codes) : cfg.scratch_codes[k] = DigitsValue(password)

\* C22: with a loaded record, a 6-character password matches exactly when it
\* is a code of the window, whether or not its value is a scratch code, and
\* an 8-character password matches exactly when its value is a scratch code,
\* whether or not its value is a code of the window; only a password that
\* matched is granted.
C22_PathByLength ==
    ( /\ result.op = "check_password"
      /\ result.loaded # <<>>
      /\ LoadOf(result.user).st = "ok" )
    => LET cfg == LoadOf(result.user).cfg IN
       /\ Len(result.password) = 6
            => (result.matched <=> InWindow(cfg, result.time, result.password))
       /\ Len(result.password) = 8
            => (result.matched <=> InScratch(cfg, result.password))
       /\ result.verdict = AUTH_GRANTED => result.matched

\* an 8-character password whose value is the code of the current step and
\* is not a scratch code: no candidate matched and the call is denied
C22_Witness ==
    /\ result.op = "check_password"
    /\ result.user = UserB
    /\ Len(result.password) = 8
    /\ LoadOf(UserB).st = "ok"
    /\ InWindow(LoadOf(UserB).cfg, result.time, result.password)
    /\ ~InScratch(LoadOf(UserB).cfg, result.password)
    /\ ~result.matched
    /\ result.verdict = AUTH_DENIED

\* the other direction: a 6-character password whose value is a scratch code
\* and is not a code of the window is denied
C22_SixDigitScratchValue ==
    /\ result.op = "check_password"
    /\ result.user = UserG
    /\ Len(result.password) = 6
    /\ LoadOf(UserG).st = "ok"
    /\ InScratch(LoadOf(UserG).cfg, result.password)
    /\ ~InWindow(LoadOf(UserG).cfg, result.time, result.password)
    /\ ~result.matched
    /\ result.verdict = AUTH_DENIED

\* C24: a check_password call creates no state file unless a candidate
\* matched, and then at most the one file of the user and password it was
\* called with; it never removes or replaces a file.  A call denied for its
\* username, its format, a failed load or for want of a match leaves the
\* state directory as it was.
C24_DeniedLeavesState ==
    [][ ( /\ result'.seq # result.seq
          /\ result'.op = "check_password" )
        => /\ stateFiles \subseteq stateFiles'
           /\ ~result'.matched => stateFiles' = stateFiles
           /\ ( \/ ~AllAlnum(result'.user)
                \/ ~WellFormed(result'.password)
                \/ LoadOf(result'.user).st # "ok" )
                => /\ ~result'.matched
                   /\ result'.markErr = "not_called"
           /\ conf.stateDir = NULL => stateFiles' = stateFiles
           /\ conf.stateDir # NULL
                => stateFiles' \ stateFiles \subseteq
                       {CodeFilePath(conf.stateDir, result'.user, result'.password)}
           /\ result'.verdict # AUTH_GRANTED => stateFiles' = stateFiles ]_vars

\* after a scratch code of "a" was granted, a call for "a" with a password
\* that matches nothing was denied: the state directory still holds exactly
\* the file of the granted code, and the other scratch code of "a" is still
\* unused
C24_Witness ==
    /\ result.op = "check_password"
    /\ result.user = UserA
    /\ Len(result.password) = 6
    /\ result.loaded = <<UserA>>
    /\ ~result.matched
    /\ result.verdict = AUTH_DENIED
    /\ conf.stateDir # NULL
    /\ stateFiles = {CodeFilePath(conf.stateDir, UserA, LineScratch1)}

\* the attempts that pass the validation of username and password
ValidatedAttempts == { at \in Attempts : AllAlnum(at[1]) /\ WellFormed(at[2]) }

\* two different validated attempts have different state files
StateKeysDistinct ==
    \A x, y \in ValidatedAttempts :
        x # y => CodeFilePath(StateDirPath, x[1], x[2])
                   # CodeFilePath(StateDirPath, y[1], y[2])

\* the last call was a validated check_password call of a user whose record
\* loaded
ValidatedCall(r) ==
    /\ r.op = "check_password"
    /\ AllAlnum(r.user)
    /\ WellFormed(r.password)
    /\ LoadOf(r.user).st = "ok"

\* C25: the state files of two different validated (user, password) pairs
\* are different files, and the verdict of a validated check_password call
\* of a user with a loaded record is decided by that record, the time and
\* the user's own earlier grants: a candidate matches as the record and the
\* time say, and (state directory configured, no file-system failure) the
\* call is granted exactly when a candidate matched and this user was not
\* granted this password before, whatever other users were granted.
C25_UserIsolation ==
    /\ [] ( /\ StateKeysDistinct
            /\ ValidatedCall(result)
                 => ( result.matched
                        <=> IF Len(result.password) = 6
                            THEN InWindow(LoadOf(result.user).cfg, result.time,
                                          result.password)
                            ELSE InScratch(LoadOf(result.user).cfg, result.password) ) )
    /\ [][ ( /\ result'.seq # result.seq
             /\ ValidatedCall(result') )
           => /\ (conf.stateDir # NULL /\ result'.markErr # "io")
                   => ( result'.verdict = AUTH_GRANTED
                          <=> /\ result'.matched
                              /\ <<result'.user, result'.password>> \notin grantLog )
              /\ (conf.stateDir = NULL \/ result'.markErr = "io")
                   => result'.verdict = AUTH_DENIED ]_vars

\* "b" was granted the scratch code 12345678, and after that "a" presented
\* the same code, which is also a scratch code of "a", and was granted
C25_Witness ==
    /\ result.op = "check_password"
    /\ result.user = UserA
    /\ result.password = LineScratch1
    /\ result.verdict = AUTH_GRANTED
    /\ grantLog = {<<UserB, LineScratch1>>, <<UserA, LineScratch1>>}
    /\ lastGrant.user = UserA

\* both threads have returned from calls with the same user and password in
\* which a candidate matched
SameCodeReturned ==
    /\ \A p \in Procs : inflight[p].pc = "returned" /\ inflight[p].matched
    /\ inflight[1].user = inflight[2].user
    /\ inflight[1].password = inflight[2].password

\* the number of threads whose call was granted
GrantedCalls == Cardinality({ p \in Procs : inflight[p].verdict = AUTH_GRANTED })

\* C23, as claimed: of the calls that present the same matching code for the
\* same user, exactly one is granted and the others are denied.
C23_ExactlyOneGranted ==
    SameCodeReturned => GrantedCalls = 1

\* C23, amended: of the calls that present the same matching code for the
\* same user at most one is granted, at the same time or at any later time;
\* exactly one is granted when the state directory is configured, no file
\* operation fails and the user had not been granted the code before; with
\* no state directory or a failed file operation the call is denied.
C23_AtMostOneGranted ==
    /\ [] ( ( /\ inflight[1].user = inflight[2].user
              /\ inflight[1].password = inflight[2].password )
            => GrantedCalls <= 1 )
    /\ [][ \A p \in Procs :
             ( /\ inflight[p].pc = "matched"
               /\ inflight'[p].verdict = AUTH_GRANTED )
             => <<inflight[p].user, inflight[p].password>> \notin grantLog ]_vars
    /\ [] ( ( /\ SameCodeReturned
              /\ conf.stateDir # NULL
              /\ \A p \in Procs : inflight[p].markErr # "io" /\ ~inflight[p].used )
            => GrantedCalls = 1 )
    /\ [] ( \A p \in Procs :
              ( /\ inflight[p].pc = "returned"
                /\ inflight[p].matched
                /\ (conf.stateDir = NULL \/ inflight[p].markErr = "io") )
              => inflight[p].verdict = AUTH_DENIED )

\* the two threads presented the same in-window code of "a", which "a" had
\* not been granted when either call began; both found the candidate, the
\* exclusive create of thread 2 succeeded and that of thread 1 found the file
C23_Witness ==
    /\ SameCodeReturned
    /\ inflight[1].user = UserA
    /\ Len(inflight[1].password) = 6
    /\ \A p \in Procs : ~inflight[p].used
    /\ inflight[2].verdict = AUTH_GRANTED
    /\ inflight[1].verdict = AUTH_DENIED
    /\ inflight[1].markErr = "exists"

=============================================================================
